---- MODULE Spec2Model ----
(***************************************************************************)
(* A model of the gollama client (package gollama): one Client and a call  *)
(* on it (Spec), two calls on it that run concurrently (ConcSpec), or a    *)
(* sequence of calls on it, one after the other or overlapping (SeqSpec).  *)
(* A call is cut into steps at the points where the Go code blocks or hands  *)
(* control away: the HTTP round trip, each read of the response body, and  *)
(* each callback invocation.  The server, the network and the caller's     *)
(* context are the environment.                                            *)
(***************************************************************************)
EXTENDS Integers, Sequences, FiniteSets, TLC

\* Largest number of body lines the server sends in one response.
MaxLines == 3

\* Largest number of lines in a body that is read whole with io.ReadAll.
MaxBlobLines == 2

\* Largest number of complete lines one Read hands to the scanner.
MaxChunk == 2

\* Largest number of calls after which the caller still makes another one.
MaxCalls == 2

VARIABLES
    host,       \* the arguments NewClient was called with
    httpClient, \* Client.httpClient
    baseURL,    \* Client.baseURL
    calls,      \* the number of calls made on the Client so far
    pc,         \* position of the call: idle, roundtrip, readall, scan, callback, done
    op,         \* the public method called
    args,       \* its arguments: the caller's request object and callback
    callerReq,  \* the arguments as the caller set them before the call
    cancelled,  \* the caller's ctx is Done
    ctxErr,     \* ctx.Err(): "none" for nil, else the text of the context's error
    doErr,      \* the cause of the error httpClient.Do returned, "none" for nil
    requests,   \* the requests handed to httpClient.Do, in order
    status,     \* resp.StatusCode
    received,   \* the body lines read from resp.Body so far
    buf,        \* lines the bufio.Scanner holds and has not returned yet
    readAllErr, \* the error io.ReadAll returned, "none" for nil
    sErr,       \* the scanner's sticky error (scanner.Err() maps EOF to nil)
    consumed,   \* the lines scanner.Text() has returned
    delivered,  \* the records the callback has been invoked with
    inflight,   \* callback invocations that have started and not returned
    decodes,    \* json.Unmarshal calls the scan loop has made
    closed,     \* number of resp.Body.Close() calls
    result,     \* the first return value of a result-returning method
    err,        \* the returned error, a chain from the outermost wrap to the cause
    parked      \* the variables of a second call on the same Client, while the
                \* goroutine of the first runs

vars == <<host, httpClient, baseURL, calls, pc, op, args, callerReq, cancelled, ctxErr, doErr, requests, status, received, buf,
          readAllErr, sErr, consumed, delivered, inflight, decodes, closed, result, err,
          parked>>

-----------------------------------------------------------------------------
(* The public operations. *)

UnaryOps    == {"List", "Show", "Copy", "Delete", "Generate", "Chat", "Embeddings", "PS"}
ProgressOps == {"Pull", "Create", "Push"}
TerminalOps == {"GenerateStream", "ChatStream"}
StreamOps   == ProgressOps \cup TerminalOps
Ops         == UnaryOps \cup StreamOps

DefaultBaseURL == "http://localhost:11434"

\* NewClient as it would be without the test for an empty first argument.
NewClient_AnyFirst(h) ==
    IF Len(h) > 0 THEN h[1] ELSE DefaultBaseURL

\* NewClient(host ...string): h is the variadic argument list, the value is
\* the baseURL of the Client returned.
NewClient(h) ==
    IF Len(h) > 0 /\ h[1] # "" THEN h[1] ELSE DefaultBaseURL

\* &http.Client{Timeout: 30 * time.Second}: the timeout in seconds.
NewHTTPClient == [Timeout |-> 30]

\* The argument lists NewClient is called with: none, an empty host, a
\* host URL, and a host written without its scheme.
Hosts == {<<>>, <<"">>, <<"http://test:8080">>, <<"localhost:11434">>}

\* url.JoinPath(c.baseURL, path) returns nil: url.Parse accepts the base.
\* It rejects "localhost:11434" (first path segment in URL cannot contain
\* colon).
JoinPathOK(base) == base \in {DefaultBaseURL, "http://test:8080"}

-----------------------------------------------------------------------------
(* Errors.  An error is the sequence of its layers, outermost first: each  *)
(* fmt.Errorf("...: %w", e) puts one layer in front of e.  NoErr is nil.   *)

NoErr == <<>>

Layer(text) == [t |-> text, status |-> 0, msg |-> ""]

\* &OllamaError{StatusCode: s, Message: m}
OllamaError(s, m) == [t |-> "OllamaError", status |-> s, msg |-> m]

\* fmt.Errorf(text + ": %w", e)
Wrap(text, e) == <<Layer(text)>> \o e

\* fmt.Errorf(text) without a wrapped cause
Errorf(text) == <<Layer(text)>>

\* The errors of a context that is Done: context.Canceled after cancel(),
\* context.DeadlineExceeded after the deadline.
CtxErrs == {"context canceled", "context deadline exceeded"}

\* ctx.Err() once ctx is Done
CtxErr == <<Layer(ctxErr)>>

\* The error NewClient returns with the Client: always nil.
NewClientErr(h) == NoErr

-----------------------------------------------------------------------------
(* JSON text.  A body is a sequence of lines; a line is kept as its raw    *)
(* text together with what encoding/json finds in it.  Absent marks a key  *)
(* the object does not have.                                               *)

Absent == "absent"

\* A complete progress/response record that is not terminal.
LRec == [raw |-> "{\"status\":\"downloading\",\"completed\":100,\"response\":\"Hi\",\"message\":{\"content\":\"Hi\"},\"done\":false}",
         kind |-> "object", long |-> FALSE, status |-> "downloading", completed |-> 100,
         response |-> "Hi", content |-> "Hi", done |-> "false", error |-> Absent]

\* A terminal record.
LDone == [raw |-> "{\"status\":\"success\",\"response\":\"\",\"message\":{\"content\":\"\"},\"done\":true}",
          kind |-> "object", long |-> FALSE, status |-> "success", completed |-> 0,
          response |-> "", content |-> "", done |-> "true", error |-> Absent]

\* The server's error envelope.
LErr == [raw |-> "{\"error\":\"model not found\"}",
         kind |-> "object", long |-> FALSE, status |-> Absent, completed |-> 0,
         response |-> Absent, content |-> Absent, done |-> Absent, error |-> "model not found"]

\* Text that is not JSON.
LBad == [raw |-> "Internal Server Error",
         kind |-> "invalid", long |-> FALSE, status |-> Absent, completed |-> 0,
         response |-> Absent, content |-> Absent, done |-> Absent, error |-> Absent]

\* A line of white space only.
LBlank == [raw |-> "  ",
           kind |-> "blank", long |-> FALSE, status |-> Absent, completed |-> 0,
           response |-> Absent, content |-> Absent, done |-> Absent, error |-> Absent]

\* The JSON value null, which json.Unmarshal accepts for a struct and which
\* leaves the struct as it was.
LNull == [raw |-> "null",
          kind |-> "null", long |-> FALSE, status |-> Absent, completed |-> 0,
          response |-> Absent, content |-> Absent, done |-> Absent, error |-> Absent]

\* A record longer than bufio.MaxScanTokenSize.
LLong == [raw |-> "{\"status\":\"verifying\",\"response\":\"<64KiB>\",\"message\":{\"content\":\"<64KiB>\"},\"done\":false}",
          kind |-> "object", long |-> TRUE, status |-> "verifying", completed |-> 0,
          response |-> "<64KiB>", content |-> "<64KiB>", done |-> "false", error |-> Absent]

\* The lines a body is made of, by name, and the text each name stands for.
Lines == {"LRec", "LDone", "LErr", "LBad", "LBlank", "LLong"}

Json(l) ==
    CASE l = "LRec" -> LRec
      [] l = "LDone" -> LDone
      [] l = "LErr" -> LErr
      [] l = "LBad" -> LBad
      [] l = "LBlank" -> LBlank
      [] l = "LLong" -> LLong
      [] l = "LNull" -> LNull

\* The sequences over S of length lo..hi.
SeqsOf(S, lo, hi) == UNION {[1..n -> S] : n \in lo..hi}

RECURSIVE RawText(_)
\* string(body): the lines joined by newlines.
RawText(lines) ==
    IF lines = <<>> THEN ""
    ELSE IF Len(lines) = 1 THEN Json(lines[1]).raw
    ELSE Json(lines[1]).raw \o "\n" \o RawText(Tail(lines))

\* strings.TrimSpace(line) == ""
IsBlank(l) == Json(l).kind = "blank"

\* The zero value of a string or bool field that the JSON leaves out.  (A
\* number key is kept as its value, 0 when the object has no such key: the
\* two decode alike.)
StrField(v)  == IF v = Absent THEN "" ELSE v
BoolField(v) == v = "true"

\* json.Unmarshal([]byte(line), &x) returns nil: the text is one JSON value.
\* (Every key the model's lines carry has the Go type of its field.)
UnmarshalOK(l) == Json(l).kind \in {"object", "null"}

\* The value json.Unmarshal leaves in a fresh struct of the operation's
\* response type: known keys are set, unknown keys ignored, missing keys zero.
Decode(o, l) ==
    CASE o \in {"Pull", "Push"} ->
            [Status |-> StrField(Json(l).status), Completed |-> Json(l).completed]
      [] o = "Create" ->
            [Status |-> StrField(Json(l).status)]
      [] o \in {"Generate", "GenerateStream"} ->
            [Response |-> StrField(Json(l).response), Done |-> BoolField(Json(l).done)]
      [] o \in {"Chat", "ChatStream"} ->
            [Content |-> StrField(Json(l).content), Done |-> BoolField(Json(l).done)]
      [] OTHER ->
            [Status |-> StrField(Json(l).status)]

\* json.Unmarshal(body, &x) on a whole body: nil exactly when the body holds
\* one JSON value, white space around it allowed.
BodyValues(body) == SelectSeq(body, LAMBDA l : ~IsBlank(l))

\* UnmarshalBodyOK as it would be with json.NewDecoder(...).Decode, which
\* reads the first value and leaves what follows it.
UnmarshalBodyOK_FirstValue(body) ==
    /\ Len(BodyValues(body)) >= 1
    /\ UnmarshalOK(BodyValues(body)[1])

UnmarshalBodyOK(body) ==
    /\ Len(BodyValues(body)) = 1
    /\ UnmarshalOK(BodyValues(body)[1])

\* parseErrorResponse as it would be if it never looked for the envelope.
parseErrorResponse_Raw(statusCode, body) ==
    <<OllamaError(statusCode, RawText(body))>>

\* parseErrorResponse as it would be if it fell back to the body text
\* whenever the envelope gave no message.
parseErrorResponse_RawIfNoMessage(statusCode, body) ==
    IF ~UnmarshalBodyOK(body) \/ StrField(Json(BodyValues(body)[1]).error) = ""
    THEN <<OllamaError(statusCode, RawText(body))>>
    ELSE <<OllamaError(statusCode, StrField(Json(BodyValues(body)[1]).error))>>

\* parseErrorResponse(statusCode, body)
parseErrorResponse(statusCode, body) ==
    IF ~UnmarshalBodyOK(body)
    THEN <<OllamaError(statusCode, RawText(body))>>
    ELSE <<OllamaError(statusCode, StrField(Json(BodyValues(body)[1]).error))>>

-----------------------------------------------------------------------------
(* Arguments and validation. *)

\* A call's arguments.  reqNil: the request pointer is nil; msgs: the
\* Messages slice is nil, empty or holds one message; fnNil: the callback
\* is nil; stream: the Stream field the caller set.
BaseArgs == [reqNil |-> FALSE, model |-> "llama2", source |-> "llama2",
             destination |-> "llama2-copy", modelfile |-> "FROM llama2",
             prompt |-> "Why is the sky blue?", msgs |-> "one",
             fnNil |-> FALSE, stream |-> FALSE]

Names == {"", "llama2"}

\* The argument values a caller may pass to each method; the fields a method
\* does not take keep their BaseArgs value.
ArgsOf(o) ==
    CASE o \in {"List", "PS"} -> {BaseArgs}
      [] o \in {"Show", "Delete"} ->
            {[BaseArgs EXCEPT !.model = m] : m \in Names}
      [] o = "Copy" ->
            {[BaseArgs EXCEPT !.source = s, !.destination = d] :
                s \in {"", "llama2"}, d \in {"", "llama2-copy"}}
      [] o \in {"Pull", "Push"} ->
            {[BaseArgs EXCEPT !.model = m, !.fnNil = f] : m \in Names, f \in BOOLEAN}
      [] o = "Create" ->
            {[BaseArgs EXCEPT !.model = m, !.modelfile = mf, !.fnNil = f] :
                m \in Names, mf \in {"", "FROM llama2"}, f \in BOOLEAN}
      [] o = "Generate" ->
            {[BaseArgs EXCEPT !.reqNil = n, !.model = m, !.stream = st] :
                n \in BOOLEAN, m \in Names, st \in BOOLEAN}
      [] o = "GenerateStream" ->
            {[BaseArgs EXCEPT !.reqNil = n, !.model = m, !.stream = st, !.fnNil = f] :
                n \in BOOLEAN, m \in Names, st \in BOOLEAN, f \in BOOLEAN}
      [] o = "Chat" ->
            {[BaseArgs EXCEPT !.reqNil = n, !.model = m, !.stream = st, !.msgs = ms] :
                n \in BOOLEAN, m \in Names, st \in BOOLEAN, ms \in {"nil", "empty", "one"}}
      [] o = "ChatStream" ->
            {[BaseArgs EXCEPT !.reqNil = n, !.model = m, !.stream = st, !.msgs = ms, !.fnNil = f] :
                n \in BOOLEAN, m \in Names, st \in BOOLEAN,
                ms \in {"nil", "empty", "one"}, f \in BOOLEAN}
      [] o = "Embeddings" ->
            {[BaseArgs EXCEPT !.reqNil = n, !.model = m, !.prompt = p] :
                n \in BOOLEAN, m \in Names, p \in {"", "Why is the sky blue?"}}

\* LenMsgs as it would be if the check were "req.Messages == nil".
LenMsgs_NilOnly(ms) == IF ms = "nil" THEN 0 ELSE 1

\* len(req.Messages)
LenMsgs(ms) == IF ms = "one" THEN 1 ELSE 0

\* The checks at the head of each method, in the method's order: the text of
\* the error the method returns, or "" when every check passes.
Validate(o, a) ==
    CASE o \in {"List", "PS"} -> ""
      [] o \in {"Show", "Delete"} ->
            IF a.model = "" THEN "model name cannot be empty" ELSE ""
      [] o = "Copy" ->
            IF a.source = "" THEN "source model name cannot be empty"
            ELSE IF a.destination = "" THEN "destination model name cannot be empty"
            ELSE ""
      [] o \in {"Pull", "Push"} ->
            IF a.model = "" THEN "model name cannot be empty"
            ELSE IF a.fnNil THEN "progress callback function cannot be nil"
            ELSE ""
      [] o = "Create" ->
            IF a.model = "" THEN "model name cannot be empty"
            ELSE IF a.modelfile = "" THEN "modelfile content cannot be empty"
            ELSE IF a.fnNil THEN "progress callback function cannot be nil"
            ELSE ""
      [] o = "Generate" ->
            IF a.reqNil THEN "generate request cannot be nil"
            ELSE IF a.model = "" THEN "model name cannot be empty"
            ELSE ""
      [] o = "GenerateStream" ->
            IF a.reqNil THEN "generate request cannot be nil"
            ELSE IF a.model = "" THEN "model name cannot be empty"
            ELSE IF a.fnNil THEN "callback function cannot be nil"
            ELSE ""
      [] o = "Chat" ->
            IF a.reqNil THEN "chat request cannot be nil"
            ELSE IF a.model = "" THEN "model name cannot be empty"
            ELSE IF LenMsgs(a.msgs) = 0 THEN "at least one message is required"
            ELSE ""
      [] o = "ChatStream" ->
            IF a.reqNil THEN "chat request cannot be nil"
            ELSE IF a.model = "" THEN "model name cannot be empty"
            ELSE IF LenMsgs(a.msgs) = 0 THEN "at least one message is required"
            ELSE IF a.fnNil THEN "callback function cannot be nil"
            ELSE ""
      [] o = "Embeddings" ->
            IF a.reqNil THEN "embedding request cannot be nil"
            ELSE IF a.model = "" THEN "model name cannot be empty"
            ELSE IF a.prompt = "" THEN "prompt cannot be empty"
            ELSE ""

-----------------------------------------------------------------------------
(* The request put on the wire. *)

\* json.Marshal of a bool field tagged `json:"stream,omitempty"`: the key is
\* written only when the value is true.
MarshalOmitEmpty(b) == IF b THEN "true" ELSE Absent

\* The value of reqCopy.Stream after the method's override.
StreamOverride(o, a) ==
    CASE o \in {"Generate", "Chat"} -> FALSE
      [] o \in {"GenerateStream", "ChatStream"} -> TRUE
      [] OTHER -> a.stream

\* CallerRequest as it would be if the method set Stream on *req itself.
CallerRequest_InPlace(o, a) ==
    IF o \in {"Generate", "GenerateStream", "Chat", "ChatStream"} /\ ~a.reqNil
    THEN [a EXCEPT !.stream = StreamOverride(o, a)]
    ELSE a

\* What a method leaves in the caller's arguments: "reqCopy := *req" copies
\* the request and the override is written to the copy, so they are as the
\* caller passed them.
CallerRequest(o, a) == a

\* json.Marshal(reqBody): the keys of the JSON object, and the value of its
\* "stream" key (Absent when the object has none).  List and PS send no body.
MarshalRequest(o, a) ==
    CASE o \in {"List", "PS"} ->
            [present |-> FALSE, keys |-> {}, stream |-> Absent]
      [] o \in {"Show", "Delete", "Pull"} ->
            [present |-> TRUE, keys |-> {"model"}, stream |-> Absent]
      [] o = "Copy" ->
            [present |-> TRUE, keys |-> {"source", "destination"}, stream |-> Absent]
      [] o = "Create" ->
            [present |-> TRUE, keys |-> {"name", "modelfile"}, stream |-> Absent]
      [] o = "Push" ->
            [present |-> TRUE, keys |-> {"name"}, stream |-> Absent]
      [] o \in {"Generate", "GenerateStream"} ->
            [present |-> TRUE,
             keys |-> {"model", "prompt"} \cup
                      (IF MarshalOmitEmpty(StreamOverride(o, a)) = Absent THEN {} ELSE {"stream"}),
             stream |-> MarshalOmitEmpty(StreamOverride(o, a))]
      [] o \in {"Chat", "ChatStream"} ->
            [present |-> TRUE,
             keys |-> {"model", "messages"} \cup
                      (IF MarshalOmitEmpty(StreamOverride(o, a)) = Absent THEN {} ELSE {"stream"}),
             stream |-> MarshalOmitEmpty(StreamOverride(o, a))]
      [] o = "Embeddings" ->
            [present |-> TRUE, keys |-> {"model", "prompt"}, stream |-> Absent]

\* Method as it would be if Delete were sent with POST like the other
\* methods that have a body.
Method_PostWithBody(o) ==
    CASE o \in {"List", "PS"} -> "GET"
      [] OTHER -> "POST"

Method(o) ==
    CASE o \in {"List", "PS"} -> "GET"
      [] o = "Delete" -> "DELETE"
      [] OTHER -> "POST"

Path(o) ==
    CASE o = "List" -> "/api/tags"
      [] o = "Show" -> "/api/show"
      [] o = "Copy" -> "/api/copy"
      [] o = "Delete" -> "/api/delete"
      [] o = "Pull" -> "/api/pull"
      [] o = "Create" -> "/api/create"
      [] o = "Push" -> "/api/push"
      [] o \in {"Generate", "GenerateStream"} -> "/api/generate"
      [] o \in {"Chat", "ChatStream"} -> "/api/chat"
      [] o = "Embeddings" -> "/api/embeddings"
      [] o = "PS" -> "/api/ps"

\* NewRequest as it would be if Content-Type were set only on a request that
\* has a body.
NewRequest_BodyHeaders(o, a) ==
    [method |-> Method(o), path |-> Path(o),
     headers |-> [ContentType |-> IF MarshalRequest(o, a).present
                                  THEN "application/json" ELSE Absent,
                  Accept |-> "application/json"],
     body |-> MarshalRequest(o, a)]

\* http.NewRequestWithContext plus the two Header.Set calls.
NewRequest(o, a) ==
    [method |-> Method(o), path |-> Path(o),
     headers |-> [ContentType |-> "application/json", Accept |-> "application/json"],
     body |-> MarshalRequest(o, a)]

-----------------------------------------------------------------------------
(* The texts of the wrapping errors. *)

\* The text a unary method puts in front of the error do() returns.
UnaryWrapText(o) ==
    CASE o = "List" -> "failed to list models"
      [] o = "Show" -> "failed to show model"
      [] o = "Copy" -> "failed to copy model"
      [] o = "Delete" -> "failed to delete model"
      [] o = "Generate" -> "failed to generate text"
      [] o = "Chat" -> "failed to chat"
      [] o = "Embeddings" -> "failed to generate embeddings"
      [] o = "PS" -> "failed to get process status"

\* The word a streaming method uses for itself in its error texts.
StreamWord(o) ==
    CASE o = "Pull" -> "pull"
      [] o = "Create" -> "create"
      [] o = "Push" -> "push"
      [] o = "GenerateStream" -> "generate"
      [] o = "ChatStream" -> "chat"

ExecuteText(o)  == "failed to execute " \o StreamWord(o) \o " request"
ReadBodyText(o) == StreamWord(o) \o " request failed with status and could not read response body"
ScanText(o)     == "error reading " \o StreamWord(o) \o " response stream"

\* What a method returns when url.JoinPath fails.
URLError(o) ==
    IF o \in UnaryOps
    THEN Wrap(UnaryWrapText(o), Wrap("failed to construct URL", <<Layer("url parse error")>>))
    ELSE Wrap("failed to construct URL", <<Layer("url parse error")>>)

\* DoErr as it would be if the *url.Error did not keep the cause.
DoErr_NoCause(cause) == <<Layer("url.Error"), Layer("request failed")>>

\* The error httpClient.Do returns: a *url.Error around the cause.
DoErr(cause) == <<Layer("url.Error"), Layer(cause)>>

\* The error of net/http when the timer of httpClient.Timeout interrupts a
\* round trip or a body read.
ClientTimeout == "Client.Timeout exceeded"

\* The causes a failed round trip or body read can have: the connection was
\* lost, the client's timer fired, or ctx is Done and the transport reports
\* ctx.Err().
Causes == {"connection reset", ClientTimeout} \cup CtxErrs

\* The timer runs from the call of Do until the body is closed; a Timeout
\* of zero means no timer.
TransportCauses(c) ==
    {"connection reset"} \cup (IF httpClient.Timeout > 0 THEN {ClientTimeout} ELSE {})
                         \cup (IF c THEN {ctxErr} ELSE {})

\* What a method returns when httpClient.Do fails.
RoundTripError(o, cause) ==
    IF o \in UnaryOps
    THEN Wrap(UnaryWrapText(o), Wrap("failed to execute request", DoErr(cause)))
    ELSE Wrap(ExecuteText(o), DoErr(cause))

\* What a method returns when io.ReadAll(resp.Body) fails.
ReadAllError(o, cause) ==
    IF o \in UnaryOps
    THEN Wrap(UnaryWrapText(o), Wrap("failed to read response body", <<Layer(cause)>>))
    ELSE Wrap(ReadBodyText(o), <<Layer(cause)>>)

\* IsErrorStatus as it would be with "<= 200" for "< 200".
IsErrorStatus_UpTo200(s) == s <= 200 \/ s >= 300

\* IsErrorStatus as it would be with "> 300" for ">= 300".
IsErrorStatus_Above300(s) == s < 200 \/ s > 300

\* resp.StatusCode < 200 || resp.StatusCode >= 300
IsErrorStatus(s) == s < 200 \/ s >= 300

\* The methods whose do() call passes a response target.
HasTarget(o) == o \in {"List", "Show", "Generate", "Chat", "Embeddings", "PS"}

\* do() after a successful io.ReadAll, with the method's wrap around its error.
UnaryOutcome(o, s, body) ==
    IF IsErrorStatus(s)
    THEN Wrap(UnaryWrapText(o), parseErrorResponse(s, body))
    ELSE IF HasTarget(o) /\ Len(body) > 0 /\ ~UnmarshalBodyOK(body)
    THEN Wrap(UnaryWrapText(o),
              Wrap("failed to unmarshal response body", <<Layer("json: syntax error")>>))
    ELSE NoErr

\* UnaryResult as it would be if the methods ended with "return &response,
\* err" on every path after do().
UnaryResult_AlwaysResponse(o, e, body) ==
    IF ~HasTarget(o) THEN "none"
    ELSE IF Len(body) > 0 THEN "decoded"
    ELSE "zero"

\* The first return value of a unary method: nil with an error; otherwise
\* &response, which holds the decoded body or, when do() skipped the decode,
\* the zero value.
UnaryResult(o, e, body) ==
    IF ~HasTarget(o) THEN "none"
    ELSE IF e # NoErr THEN "nil"
    ELSE IF Len(body) > 0 THEN "decoded"
    ELSE "zero"

\* scanner.Err(): nil for no error and for io.EOF.
ScannerErrText(e) ==
    CASE e = "fail" -> "unexpected EOF"
      [] e = "canceled" -> ctxErr
      [] e = "timeout" -> ClientTimeout
      [] e = "toolong" -> "bufio.Scanner: token too long"

\* AfterLoop as it would be without the check of scanner.Err().
AfterLoop_Unchecked(o, e) == NoErr

\* AfterLoop as it would be if the scanner's error were formatted with %v:
\* its text is kept and its identity lost.
AfterLoop_Opaque(o, e) ==
    IF e \in {"none", "EOF"} THEN NoErr
    ELSE Errorf(ScanText(o) \o ": " \o ScannerErrText(e))

\* AfterLoop as it would be if GenerateStream and ChatStream reported a
\* stream that ended before any record had done set.
AfterLoop_RequiresDone(o, e) ==
    IF e \in {"none", "EOF"}
    THEN IF o \in TerminalOps /\ \A i \in 1..Len(delivered) : ~delivered[i].Done
         THEN Errorf("stream ended before the final response")
         ELSE NoErr
    ELSE Wrap(ScanText(o), <<Layer(ScannerErrText(e))>>)

\* AfterLoop as it would be if a read that the client's timer interrupted
\* were taken for the end of the stream.
AfterLoop_TimeoutIsEnd(o, e) ==
    IF e \in {"none", "EOF", "timeout"} THEN NoErr
    ELSE Wrap(ScanText(o), <<Layer(ScannerErrText(e))>>)

\* The code after the scan loop: the check of scanner.Err().
AfterLoop(o, e) ==
    IF e \in {"none", "EOF"} THEN NoErr
    ELSE Wrap(ScanText(o), <<Layer(ScannerErrText(e))>>)

Statuses == {199, 200, 299, 300, 404}

\* The bodies io.ReadAll reads whole: what matters of such a body is whether
\* it is empty, one JSON value, several, or not JSON.
BlobLines == {"LRec", "LErr", "LBad", "LBlank", "LNull"}
Bodies == SeqsOf(BlobLines, 0, MaxBlobLines)

-----------------------------------------------------------------------------
(* The state after NewClient. *)

\* The variables of a call that has not started: every method keeps its
\* state in locals, and each call brings its own ctx.
NoCall ==
    [pc |-> "idle", op |-> "none", args |-> BaseArgs, callerReq |-> BaseArgs,
     cancelled |-> FALSE,
     ctxErr |-> "none", doErr |-> "none", requests |-> <<>>, status |-> 0,
     received |-> <<>>, buf |-> <<>>, readAllErr |-> "none", sErr |-> "none",
     consumed |-> <<>>, delivered |-> <<>>, inflight |-> 0, decodes |-> 0,
     closed |-> 0,
     result |-> "none", err |-> NoErr]

Init ==
    /\ host \in Hosts
    /\ httpClient = NewHTTPClient
    /\ baseURL = NewClient(host)
    /\ calls = 0
    /\ parked = NoCall
    /\ pc = "idle"
    /\ op = "none"
    /\ args = BaseArgs
    /\ callerReq = BaseArgs
    /\ cancelled = FALSE
    /\ ctxErr = "none"
    /\ doErr = "none"
    /\ requests = <<>>
    /\ status = 0
    /\ received = <<>>
    /\ buf = <<>>
    /\ readAllErr = "none"
    /\ sErr = "none"
    /\ consumed = <<>>
    /\ delivered = <<>>
    /\ inflight = 0
    /\ decodes = 0
    /\ closed = 0
    /\ result = "none"
    /\ err = NoErr

\* The caller cancels ctx, or its deadline passes, before or during a call:
\* ctx is Done and ctx.Err() is e from now on.
Cancel(e) ==
    /\ pc # "done"
    /\ ~cancelled
    /\ cancelled' = TRUE
    /\ ctxErr' = e
    /\ UNCHANGED <<decodes, host, httpClient, calls, parked, callerReq, doErr, readAllErr, baseURL, pc, op, args, requests, status, received, buf, sErr,
                   consumed, delivered, inflight, closed, result, err>>

\* A public method is called: its validation, and when that passes the
\* construction of the URL and the request and the call of httpClient.Do.
\* Do fails at once when ctx is already done.
Invoke(o, a) ==
    /\ pc = "idle"
    /\ calls' = calls + 1
    /\ op' = o
    /\ callerReq' = a
    /\ args' = CallerRequest(o, a)
    /\ IF Validate(o, a) # ""
       THEN /\ pc' = "done"
            /\ err' = Errorf(Validate(o, a))
            /\ result' = IF HasTarget(o) THEN "nil" ELSE "none"
            /\ UNCHANGED requests
       ELSE IF ~JoinPathOK(baseURL)
       THEN /\ pc' = "done"
            /\ err' = URLError(o)
            /\ result' = IF HasTarget(o) THEN "nil" ELSE "none"
            /\ UNCHANGED requests
       ELSE /\ requests' = Append(requests, NewRequest(o, a))
            /\ IF cancelled
               THEN /\ pc' = "done"
                    /\ err' = RoundTripError(o, ctxErr)
                    /\ result' = IF HasTarget(o) THEN "nil" ELSE "none"
               ELSE /\ pc' = "roundtrip"
                    /\ UNCHANGED <<err, result>>
    /\ doErr' = IF requests' # requests /\ cancelled THEN ctxErr ELSE "none"
    /\ UNCHANGED <<decodes, host, httpClient, parked, ctxErr, readAllErr, baseURL, cancelled, status, received, buf, sErr, consumed,
                   delivered, inflight, closed>>

\* DoError as it would be if the method sent the request a second time after
\* a first failure of httpClient.Do.
DoError_Retry(cause) ==
    /\ pc = "roundtrip"
    /\ cause \in TransportCauses(cancelled)
    /\ IF Len(requests) < 2
       THEN /\ requests' = Append(requests, NewRequest(op, args))
            /\ UNCHANGED <<pc, err, doErr, result>>
       ELSE /\ pc' = "done"
            /\ err' = RoundTripError(op, cause)
            /\ doErr' = cause
            /\ result' = IF HasTarget(op) THEN "nil" ELSE "none"
            /\ UNCHANGED requests
    /\ UNCHANGED <<decodes, host, httpClient, calls, parked, callerReq, ctxErr, readAllErr, baseURL, op, args, cancelled, status, received, buf,
                   sErr, consumed, delivered, inflight, closed>>

\* httpClient.Do returns an error: the connection failed, or ctx was
\* cancelled while the request was in flight.
DoError(cause) ==
    /\ pc = "roundtrip"
    /\ cause \in TransportCauses(cancelled)
    /\ pc' = "done"
    /\ err' = RoundTripError(op, cause)
    /\ doErr' = cause
    /\ result' = IF HasTarget(op) THEN "nil" ELSE "none"
    /\ UNCHANGED <<decodes, host, httpClient, calls, parked, callerReq, ctxErr, readAllErr, baseURL, op, args, cancelled, requests, status, received, buf,
                   sErr, consumed, delivered, inflight, closed>>

\* httpClient.Do returns the response: its status line and headers have
\* arrived (before any cancellation of ctx reached the transport).  A
\* streaming method answered 2xx makes its scanner and enters the loop;
\* every other call goes on to io.ReadAll.
DoRespond(s) ==
    /\ pc = "roundtrip"
    /\ ~cancelled
    /\ status' = s
    /\ pc' = IF op \in StreamOps /\ ~IsErrorStatus(s) THEN "scan" ELSE "readall"
    /\ UNCHANGED <<decodes, host, httpClient, calls, parked, callerReq, ctxErr, doErr, readAllErr, baseURL, op, args, cancelled, requests, received, buf,
                   sErr, consumed, delivered, inflight, closed, result, err>>

\* io.ReadAll(resp.Body) returns, in do() or in the non-2xx branch of a
\* streaming method, and the rest of the method runs to its return.  The
\* read fails with cause when readOK is false, and the method then returns
\* without looking at the bytes read so far.
ReadAll(body, readOK, cause) ==
    /\ pc = "readall"
    /\ cause \in TransportCauses(cancelled)
    /\ received' = IF readOK THEN body ELSE <<>>
    /\ readAllErr' = IF readOK THEN "none" ELSE cause
    /\ closed' = closed + 1
    /\ pc' = "done"
    /\ err' = IF ~readOK THEN ReadAllError(op, cause)
              ELSE IF op \in UnaryOps THEN UnaryOutcome(op, status, body)
              ELSE parseErrorResponse(status, body)
    /\ result' = IF op \in UnaryOps THEN UnaryResult(op, err', body) ELSE "none"
    /\ UNCHANGED <<decodes, host, httpClient, calls, parked, callerReq, ctxErr, doErr, baseURL, op, args, cancelled, requests, status, buf,
                   sErr, consumed, delivered, inflight>>

-----------------------------------------------------------------------------
(* The scan loop of the streaming methods. *)

\* The loop of GenerateStream and ChatStream starts with a select on
\* ctx.Done(); the loops of Pull, Create and Push have none.
ChecksContext(o) == o \in TerminalOps

\* Attempts as it would be if the line were given to json.Unmarshal before
\* the test for a blank line.
Attempts_DecodeFirst(l) == 1

\* The number of json.Unmarshal calls the loop body makes for the line: none
\* for a line that is empty after strings.TrimSpace, which the loop leaves
\* with continue before it declares the record.
Attempts(l) == IF IsBlank(l) THEN 0 ELSE 1

\* Skips as it would be if the error of json.Unmarshal were ignored.
Skips_OnlyBlank(l) == IsBlank(l)

\* The line is skipped with continue: it is blank after TrimSpace, or
\* json.Unmarshal returned an error.
Skips(l) == IsBlank(l) \/ ~UnmarshalOK(l)

\* BreaksOnDone as it would be if the progress loops stopped at the record
\* whose status is "success".
BreaksOnDone_OrSuccess(o, rec) ==
    IF o \in TerminalOps THEN rec.Done ELSE rec.Status = "success"

\* BreaksOnDone as it would be without the break.
BreaksOnDone_Never(o, rec) == FALSE

\* "if response.Done { break }", which only GenerateStream and ChatStream have.
BreaksOnDone(o, rec) == o \in TerminalOps /\ rec.Done

\* LoopReturn as it would be without the deferred resp.Body.Close().
LoopReturn_Leak(e) ==
    /\ pc' = "done"
    /\ err' = e
    /\ closed' = closed

\* The method returns e from inside or after the loop; the deferred
\* resp.Body.Close() runs.
LoopReturn(e) ==
    /\ pc' = "done"
    /\ err' = e
    /\ closed' = closed + 1

\* LoopBody as it would be if the record were declared once before the loop
\* and fn were given a pointer to it: json.Unmarshal leaves the fields whose
\* keys the line lacks as the earlier lines set them, and every pointer the
\* callback kept shows the latest line.
LoopBody_SharedRecord(l) ==
    IF ChecksContext(op) /\ cancelled
    THEN /\ LoopReturn(CtxErr)
         /\ UNCHANGED <<delivered, inflight, decodes>>
    ELSE IF Skips(l)
    THEN /\ pc' = "scan"
         /\ decodes' = decodes + Attempts(l)
         /\ UNCHANGED <<delivered, inflight, err, closed>>
    ELSE /\ decodes' = decodes + Attempts(l)
         /\ delivered' =
               [i \in 1..(Len(delivered) + 1) |->
                   IF delivered # <<>> /\ Json(l).status = Absent
                                      /\ Json(l).response = Absent
                   THEN delivered[Len(delivered)]
                   ELSE Decode(op, l)]
         /\ inflight' = inflight + 1
         /\ pc' = "callback"
         /\ UNCHANGED <<err, closed>>

\* LoopBody as it would be if fn were started with "go fn(...)".
LoopBody_Async(l) ==
    IF ChecksContext(op) /\ cancelled
    THEN /\ LoopReturn(CtxErr)
         /\ UNCHANGED <<delivered, inflight, decodes>>
    ELSE IF Skips(l)
    THEN /\ pc' = "scan"
         /\ decodes' = decodes + Attempts(l)
         /\ UNCHANGED <<delivered, inflight, err, closed>>
    ELSE /\ decodes' = decodes + Attempts(l)
         /\ delivered' = Append(delivered, Decode(op, l))
         /\ inflight' = inflight + 1
         /\ pc' = "scan"
         /\ UNCHANGED <<err, closed>>

\* LoopBody as it would be if a line with an error key ended the call with
\* that error, as the non-2xx branch does with an error body.
LoopBody_ErrorEnvelope(l) ==
    IF ChecksContext(op) /\ cancelled
    THEN /\ LoopReturn(CtxErr)
         /\ UNCHANGED <<delivered, inflight, decodes>>
    ELSE IF Skips(l)
    THEN /\ pc' = "scan"
         /\ decodes' = decodes + Attempts(l)
         /\ UNCHANGED <<delivered, inflight, err, closed>>
    ELSE IF Json(l).error # Absent
    THEN /\ decodes' = decodes + Attempts(l)
         /\ LoopReturn(<<OllamaError(status, Json(l).error)>>)
         /\ UNCHANGED <<delivered, inflight>>
    ELSE /\ decodes' = decodes + Attempts(l)
         /\ delivered' = Append(delivered, Decode(op, l))
         /\ inflight' = inflight + 1
         /\ pc' = "callback"
         /\ UNCHANGED <<err, closed>>

\* The loop body for the line scanner.Text() returned, up to the call of fn.
LoopBody(l) ==
    IF ChecksContext(op) /\ cancelled
    THEN /\ LoopReturn(CtxErr)
         /\ UNCHANGED <<delivered, inflight, decodes>>
    ELSE IF Skips(l)
    THEN /\ pc' = "scan"
         /\ decodes' = decodes + Attempts(l)
         /\ UNCHANGED <<delivered, inflight, err, closed>>
    ELSE /\ decodes' = decodes + Attempts(l)
         /\ delivered' = Append(delivered, Decode(op, l))
         /\ inflight' = inflight + 1
         /\ pc' = "callback"
         /\ UNCHANGED <<err, closed>>

\* scanner.Scan() with the complete or final lines b at hand, the scanner's
\* error being e: it returns the first line as the token, or fails with
\* ErrTooLong when that line does not fit the buffer.
Token(b, e) ==
    IF Json(Head(b)).long
    THEN /\ sErr' = "toolong"
         /\ buf' = b
         /\ LoopReturn(AfterLoop(op, "toolong"))
         /\ UNCHANGED <<consumed, delivered, inflight, decodes>>
    ELSE /\ sErr' = e
         /\ buf' = Tail(b)
         /\ consumed' = Append(consumed, Head(b))
         /\ LoopBody(Head(b))

\* scanner.Scan() finds a line in its buffer.
ScanBuffered ==
    /\ pc = "scan"
    /\ buf # <<>>
    /\ Token(buf, sErr)
    /\ UNCHANGED <<host, httpClient, calls, parked, callerReq, ctxErr, doErr, readAllErr, baseURL, op, args, cancelled, requests, status, received, result>>

\* scanner.Scan() has no line at hand and reads the body: the Read returns
\* the complete lines of chunk.
ScanRead(chunk) ==
    /\ pc = "scan"
    /\ buf = <<>>
    /\ sErr = "none"
    /\ Len(received) + Len(chunk) <= MaxLines
    /\ received' = received \o chunk
    /\ Token(chunk, "none")
    /\ UNCHANGED <<host, httpClient, calls, parked, callerReq, ctxErr, doErr, readAllErr, baseURL, op, args, cancelled, requests, status, result>>

\* The ends a body read can report: end of stream, a lost connection, the
\* client's timer interrupting the read, or the cancellation of ctx.
ReadEnds(c) == {"EOF", "fail", "timeout"} \cup (IF c THEN {"canceled"} ELSE {})

\* scanner.Scan() reads the body and the Read reports e.  tail is the text
\* after the last newline, at most one unterminated line, which the scanner
\* still returns as a token.
ScanReadEnd(e, tail) ==
    /\ pc = "scan"
    /\ buf = <<>>
    /\ sErr = "none"
    /\ e \in ReadEnds(cancelled)
    /\ e = "timeout" => httpClient.Timeout > 0
    /\ Len(received) + Len(tail) <= MaxLines
    /\ received' = received \o tail
    /\ IF tail = <<>>
       THEN /\ sErr' = e
            /\ LoopReturn(AfterLoop(op, e))
            /\ UNCHANGED <<buf, consumed, delivered, inflight, decodes>>
       ELSE Token(tail, e)
    /\ UNCHANGED <<host, httpClient, calls, parked, callerReq, ctxErr, doErr, readAllErr, baseURL, op, args, cancelled, requests, status, result>>

\* scanner.Scan() returns false: the buffer is empty and the read has ended.
ScanStop ==
    /\ pc = "scan"
    /\ buf = <<>>
    /\ sErr # "none"
    /\ LoopReturn(AfterLoop(op, sErr))
    /\ UNCHANGED <<decodes, host, httpClient, calls, parked, callerReq, ctxErr, doErr, readAllErr, baseURL, op, args, cancelled, requests, status, received, buf,
                   sErr, consumed, delivered, inflight, result>>

\* CallbackReturn as it would be if ctx were looked at again right after fn
\* returns, before the test of Done.
CallbackReturn_ChecksCtx ==
    /\ pc = "callback"
    /\ inflight' = inflight - 1
    /\ IF ChecksContext(op) /\ cancelled
       THEN LoopReturn(CtxErr)
       ELSE IF BreaksOnDone(op, delivered[Len(delivered)])
       THEN LoopReturn(AfterLoop(op, sErr))
       ELSE /\ pc' = "scan"
            /\ UNCHANGED <<err, closed>>
    /\ UNCHANGED <<decodes, host, httpClient, calls, parked, callerReq, ctxErr, doErr, readAllErr, baseURL, op, args, cancelled, requests, status, received, buf,
                   sErr, consumed, delivered, result>>

\* fn returns; the loop breaks on a terminal record or goes on to the next
\* scanner.Scan().
CallbackReturn ==
    /\ pc = "callback"
    /\ inflight' = inflight - 1
    /\ IF BreaksOnDone(op, delivered[Len(delivered)])
       THEN LoopReturn(AfterLoop(op, sErr))
       ELSE /\ pc' = "scan"
            /\ UNCHANGED <<err, closed>>
    /\ UNCHANGED <<decodes, host, httpClient, calls, parked, callerReq, ctxErr, doErr, readAllErr, baseURL, op, args, cancelled, requests, status, received, buf,
                   sErr, consumed, delivered, result>>

-----------------------------------------------------------------------------
(* Two calls on one Client. *)

\* The variables of the call whose goroutine runs.
Running ==
    [pc |-> pc, op |-> op, args |-> args, callerReq |-> callerReq,
     cancelled |-> cancelled,
     ctxErr |-> ctxErr, doErr |-> doErr, requests |-> requests, status |-> status,
     received |-> received, buf |-> buf, readAllErr |-> readAllErr, sErr |-> sErr,
     consumed |-> consumed, delivered |-> delivered, inflight |-> inflight,
     decodes |-> decodes,
     closed |-> closed, result |-> result, err |-> err]

\* Switch as it would be if the two calls read through one scanner kept in
\* the Client.
Switch_SharedScanner ==
    /\ parked' = [Running EXCEPT !.buf = parked.buf]
    /\ pc' = parked.pc
    /\ op' = parked.op
    /\ args' = parked.args
    /\ callerReq' = parked.callerReq
    /\ cancelled' = parked.cancelled
    /\ ctxErr' = parked.ctxErr
    /\ doErr' = parked.doErr
    /\ requests' = parked.requests
    /\ status' = parked.status
    /\ received' = parked.received
    /\ readAllErr' = parked.readAllErr
    /\ sErr' = parked.sErr
    /\ consumed' = parked.consumed
    /\ delivered' = parked.delivered
    /\ inflight' = parked.inflight
    /\ decodes' = parked.decodes
    /\ closed' = parked.closed
    /\ result' = parked.result
    /\ err' = parked.err
    /\ UNCHANGED <<host, httpClient, baseURL, calls, buf>>

\* The scheduler lets the goroutine of the other call run.  A call's state is
\* its locals (request, response, scanner, record) and its ctx; the Client's
\* fields are only read.
Switch ==
    /\ parked' = Running
    /\ pc' = parked.pc
    /\ op' = parked.op
    /\ args' = parked.args
    /\ callerReq' = parked.callerReq
    /\ cancelled' = parked.cancelled
    /\ ctxErr' = parked.ctxErr
    /\ doErr' = parked.doErr
    /\ requests' = parked.requests
    /\ status' = parked.status
    /\ received' = parked.received
    /\ buf' = parked.buf
    /\ readAllErr' = parked.readAllErr
    /\ sErr' = parked.sErr
    /\ consumed' = parked.consumed
    /\ delivered' = parked.delivered
    /\ inflight' = parked.inflight
    /\ decodes' = parked.decodes
    /\ closed' = parked.closed
    /\ result' = parked.result
    /\ err' = parked.err
    /\ UNCHANGED <<host, httpClient, baseURL, calls>>

-----------------------------------------------------------------------------

\* A successful io.ReadAll has no cause and a failed one leaves no body, so
\* the two are enumerated apart.
Next ==
    \/ \E e \in CtxErrs : Cancel(e)
    \/ \E o \in Ops : \E a \in ArgsOf(o) : Invoke(o, a)
    \/ \E cause \in Causes : DoError(cause)
    \/ \E s \in Statuses : DoRespond(s)
    \/ \E body \in Bodies : ReadAll(body, TRUE, "connection reset")
    \/ \E cause \in Causes : ReadAll(<<>>, FALSE, cause)
    \/ ScanBuffered
    \/ \E chunk \in SeqsOf(Lines, 1, MaxChunk) : ScanRead(chunk)
    \/ \E e \in ReadEnds(TRUE), tail \in SeqsOf(Lines, 0, 1) : ScanReadEnd(e, tail)
    \/ ScanStop
    \/ CallbackReturn

Spec == Init /\ [][Next]_vars

\* NextCall as it would be if a returning method reset the Client to the
\* default host.
NextCall_Rebase ==
    /\ pc = "done"
    /\ calls < MaxCalls
    /\ pc' = NoCall.pc
    /\ op' = NoCall.op
    /\ args' = NoCall.args
    /\ callerReq' = NoCall.callerReq
    /\ cancelled' = NoCall.cancelled
    /\ ctxErr' = NoCall.ctxErr
    /\ doErr' = NoCall.doErr
    /\ requests' = NoCall.requests
    /\ status' = NoCall.status
    /\ received' = NoCall.received
    /\ buf' = NoCall.buf
    /\ readAllErr' = NoCall.readAllErr
    /\ sErr' = NoCall.sErr
    /\ consumed' = NoCall.consumed
    /\ delivered' = NoCall.delivered
    /\ inflight' = NoCall.inflight
    /\ decodes' = NoCall.decodes
    /\ closed' = NoCall.closed
    /\ result' = NoCall.result
    /\ err' = NoCall.err
    /\ baseURL' = DefaultBaseURL
    /\ UNCHANGED <<host, httpClient, calls, parked>>

\* The running call has returned and the caller makes its next call on the
\* same Client: the new call starts with fresh locals and its own ctx.
NextCall ==
    /\ pc = "done"
    /\ calls < MaxCalls
    /\ pc' = NoCall.pc
    /\ op' = NoCall.op
    /\ args' = NoCall.args
    /\ callerReq' = NoCall.callerReq
    /\ cancelled' = NoCall.cancelled
    /\ ctxErr' = NoCall.ctxErr
    /\ doErr' = NoCall.doErr
    /\ requests' = NoCall.requests
    /\ status' = NoCall.status
    /\ received' = NoCall.received
    /\ buf' = NoCall.buf
    /\ readAllErr' = NoCall.readAllErr
    /\ sErr' = NoCall.sErr
    /\ consumed' = NoCall.consumed
    /\ delivered' = NoCall.delivered
    /\ inflight' = NoCall.inflight
    /\ decodes' = NoCall.decodes
    /\ closed' = NoCall.closed
    /\ result' = NoCall.result
    /\ err' = NoCall.err
    /\ UNCHANGED <<host, httpClient, baseURL, calls, parked>>

\* The operations, responses and reads of the two concurrent calls: a unary
\* method, a progress method and a method that stops at its terminal record,
\* answered 200 or 404, reading their bodies one or two lines at a time.
ConcOps      == {"List", "Pull", "GenerateStream"}
ConcStatuses == {200, 404}
ConcBodies   == {<<>>, <<"LRec">>, <<"LErr">>}
ConcChunks   == SeqsOf({"LRec", "LDone"}, 1, MaxChunk)

ConcNext ==
    \/ Switch
    \/ \E o \in ConcOps : Invoke(o, BaseArgs)
    \/ DoError("connection reset")
    \/ \E s \in ConcStatuses : DoRespond(s)
    \/ \E body \in ConcBodies : ReadAll(body, TRUE, "connection reset")
    \/ ScanBuffered
    \/ \E chunk \in ConcChunks : ScanRead(chunk)
    \/ \E tail \in {<<>>, <<"LRec">>} : ScanReadEnd("EOF", tail)
    \/ ScanStop
    \/ CallbackReturn

ConcSpec == Init /\ [][ConcNext]_vars

\* Sequences of calls on one Client, from one goroutine or from two.
SeqNext ==
    \/ ConcNext
    \/ NextCall

SeqSpec == Init /\ [][SeqNext]_vars

-----------------------------------------------------------------------------
(* Properties. *)

\* The response was 2xx.
Is2xx == status >= 200 /\ status <= 299

\* The line holds one JSON value of the record's shape.
Decodable(l) == Json(l).kind = "object"

\* The records the lines of ls decode to, line by line.
RecordsOf(o, ls) == [i \in 1..Len(ls) |-> Decode(o, ls[i])]

\* s is an initial part of t.
IsPrefix(s, t) == Len(s) <= Len(t) /\ s = SubSeq(t, 1, Len(s))

RECURSIVE UpToDone(_)
\* The decodable lines of ls up to and including the first whose done key is true.
UpToDone(ls) ==
    IF ls = <<>> THEN <<>>
    ELSE IF ~Decodable(Head(ls)) THEN UpToDone(Tail(ls))
    ELSE IF Json(Head(ls)).done = "true" THEN <<Head(ls)>>
    ELSE <<Head(ls)>> \o UpToDone(Tail(ls))

\* C1: Pull, Create and Push, answered 2xx with a body whose lines all decode
\* and whose reader ends with end-of-stream: the callback has been invoked once
\* per line, in line order, with the record of that line, and the call
\* returns nil; and these calls return nil only after the reader reported
\* end-of-stream with every line read handed out (no record stops the loop).
C1_ProgressDeliversEveryLine ==
    (op \in ProgressOps /\ pc = "done" /\ Is2xx) =>
        /\ (sErr = "EOF" /\ \A i \in 1..Len(received) : Decodable(received[i])) =>
              /\ delivered = RecordsOf(op, received)
              /\ err = NoErr
        /\ err = NoErr => (sErr = "EOF" /\ consumed = received)

C1_Witness ==
    /\ op = "Pull" /\ pc = "done" /\ err = NoErr
    /\ received = <<"LRec", "LDone", "LErr">>
    /\ Len(delivered) = 3
    /\ delivered[2].Status = "success"

\* C2: GenerateStream and ChatStream: the records handed to the callback are
\* always an initial part of the decodable lines up to and including the first
\* terminal one; once the callback has returned from a terminal record the
\* call has returned, the terminal line is the last line taken from the
\* scanner, and, the reader not having failed, the call returned nil.
C2_TerminalRecordStops ==
    (op \in TerminalOps /\ Is2xx) =>
        /\ IsPrefix(delivered, RecordsOf(op, UpToDone(received)))
        /\ (delivered # <<>> /\ delivered[Len(delivered)].Done /\ inflight = 0) =>
              /\ pc = "done"
              /\ delivered = RecordsOf(op, UpToDone(consumed))
              /\ Json(consumed[Len(consumed)]).done = "true"
              /\ sErr \in {"none", "EOF"} => err = NoErr

C2_Witness ==
    /\ op = "GenerateStream" /\ pc = "done" /\ err = NoErr
    /\ received = <<"LRec", "LDone", "LRec">>
    /\ consumed = <<"LRec", "LDone">>
    /\ Len(delivered) = 2

\* C3: in the five streaming operations a line that does not decode is passed
\* over: while the loop runs, the records handed to the callback are exactly
\* those of the decodable lines taken from the scanner so far, in order; and
\* a call whose reader did not fail and whose context was not cancelled
\* returns nil whatever undecodable lines the body held.
C3_MalformedLineSkipped ==
    (op \in StreamOps /\ Is2xx) =>
        /\ pc \in {"scan", "callback"} =>
              delivered = RecordsOf(op, SelectSeq(consumed, Decodable))
        /\ (pc = "done" /\ sErr \in {"none", "EOF"} /\ ~cancelled) =>
              /\ err = NoErr
              /\ delivered = RecordsOf(op, SelectSeq(consumed, Decodable))

C3_Witness ==
    /\ op = "Create" /\ pc = "done" /\ err = NoErr
    /\ received = <<"LRec", "LBad", "LRec">>
    /\ consumed = received
    /\ Len(delivered) = 2

\* C4: every request Generate or Chat hands to the transport has a body with
\* "stream": false in it, and every request GenerateStream or ChatStream
\* hands to it has "stream": true, whatever Stream the caller set.
C4_StreamFlagOnWire ==
    \A i \in 1..Len(requests) :
        /\ op \in {"Generate", "Chat"} => requests[i].body.stream = "false"
        /\ op \in TerminalOps => requests[i].body.stream = "true"

\* C5: in the five streaming operations, a line that comes up for processing
\* while ctx is already cancelled ends the call with the cancellation error,
\* and the callback is not invoked for it.
C5_CancellationCheckedPerLine ==
    [][(op \in StreamOps /\ pc = "scan" /\ cancelled /\ consumed' # consumed) =>
          /\ pc' = "done"
          /\ err' # NoErr
          /\ err'[Len(err')].t \in CtxErrs
          /\ delivered' = delivered]_vars

\* C6: a call answered with a non-2xx status whose body was read returns an
\* error whose cause is an OllamaError with the response's status; its
\* message is the value of the error key when the body is the envelope
\* {"error": m}, and the body text when the body holds text that is not JSON.
C6_ErrorMapping ==
    (pc = "done" /\ status # 0 /\ ~Is2xx /\ readAllErr = "none") =>
        /\ err # NoErr
        /\ err[Len(err)].t = "OllamaError"
        /\ err[Len(err)].status = status
        /\ received = <<"LErr">> => err[Len(err)].msg = "model not found"
        /\ received = <<"LBad">> => err[Len(err)].msg = "Internal Server Error"
        /\ (\E i \in 1..Len(received) : Json(received[i]).kind = "invalid") =>
              err[Len(err)].msg = RawText(received)

C6_Witness ==
    /\ op = "List" /\ pc = "done" /\ status = 404
    /\ received = <<"LErr">>
    /\ err = <<Layer("failed to list models"), OllamaError(404, "model not found")>>

\* The required-input rules, operation by operation.
ViolatesRule(o, a) ==
    \/ o \in {"Show", "Delete", "Pull", "Create", "Push", "Generate",
              "GenerateStream", "Chat", "ChatStream", "Embeddings"} /\ a.model = ""
    \/ o = "Copy" /\ (a.source = "" \/ a.destination = "")
    \/ o = "Create" /\ a.modelfile = ""
    \/ o = "Embeddings" /\ a.prompt = ""
    \/ o \in {"Chat", "ChatStream"} /\ a.msgs \in {"nil", "empty"}
    \/ o \in {"Generate", "GenerateStream", "Chat", "ChatStream", "Embeddings"} /\ a.reqNil
    \/ o \in StreamOps /\ a.fnNil

\* C7: a call whose arguments break the operation's required-input rule has
\* returned a non-nil error without handing any request to the transport.
C7_ValidationFailsFast ==
    (op \in Ops /\ ViolatesRule(op, args)) =>
        /\ pc = "done"
        /\ err # NoErr
        /\ requests = <<>>
        /\ status = 0

C7_Witness ==
    /\ op = "ChatStream" /\ pc = "done"
    /\ ~args.reqNil /\ args.model # "" /\ ~args.fnNil /\ args.msgs = "empty"
    /\ err = Errorf("at least one message is required")
    /\ requests = <<>>

\* C8: at most one callback invocation is in flight at any time, none is in
\* flight when the scanner is asked for the next line or when the call has
\* returned, and no callback is invoked after the call has returned.
C8_CallbacksSequential ==
    /\ [](inflight <= 1 /\ (pc \in {"scan", "done"} => inflight = 0))
    /\ [][pc = "done" => delivered' = delivered]_vars

C8_Witness ==
    /\ pc = "callback" /\ inflight = 1
    /\ Len(delivered) = 2

\* C9: a streaming operation answered with a status outside [200,300) has
\* returned without invoking the callback and without taking a line from the
\* body, and when the body was read its error is the OllamaError built from
\* the status and the whole body.
C9_StreamErrorStatus ==
    (op \in StreamOps /\ status # 0 /\ ~Is2xx) =>
        /\ pc \in {"readall", "done"}
        /\ delivered = <<>>
        /\ consumed = <<>>
        /\ (pc = "done" /\ readAllErr = "none") =>
              /\ err # NoErr
              /\ err[Len(err)] = parseErrorResponse(status, received)[1]

C9_Witness ==
    /\ op = "Pull" /\ pc = "done" /\ status = 300
    /\ received = <<"LErr", "LRec">>
    /\ err = <<OllamaError(300, RawText(received))>>

\* The texts with which an operation names itself in front of a cause.
OpTexts(o) ==
    IF o \in UnaryOps THEN {UnaryWrapText(o)}
    ELSE {ExecuteText(o), ReadBodyText(o), ScanText(o)}

\* C10: every error a call returns once its request has been handed to the
\* transport (a transport, non-2xx, decode or cancellation failure) has a
\* first layer that names the operation and a cause behind it.
C10_ErrorsWrappedWithOperation ==
    (pc = "done" /\ requests # <<>> /\ err # NoErr) =>
        /\ Len(err) >= 2
        /\ err[1].t \in OpTexts(op)

\* The call was rejected by the checks at the head of its method.
Rejected == pc = "done" /\ op \in Ops /\ Validate(op, args) # ""

\* C11: the error of a rejected call names the operation that rejected it: no
\* other operation returns the same error for an argument it rejects.
C11_ValidationErrorNamesOperation ==
    Rejected =>
        \A o \in Ops \ {op} : \A a \in ArgsOf(o) :
            Validate(o, a) # "" => Errorf(Validate(o, a)) # err

\* The type assertion e.(*OllamaError): it looks at the dynamic type of the
\* error value itself, which is that of its outermost layer.
IsOllamaError(e) == e # NoErr /\ e[1].t = "OllamaError"

\* C12: a call answered with a non-2xx status (its body read) returns an
\* error value that is itself an *OllamaError carrying the response's status.
C12_DirectTypeAssertion ==
    (pc = "done" /\ status # 0 /\ ~Is2xx /\ readAllErr = "none") =>
        /\ IsOllamaError(err)
        /\ err[1].status = status

\* C13: a returned call of a result-returning operation has a non-nil error
\* or a result decoded from the response body.
C13_ResultOrError ==
    (pc = "done" /\ HasTarget(op)) =>
        \/ err # NoErr
        \/ result = "decoded"

\* errors.Is(e, ctx.Err()): some layer of e is the error of the Done context.
WrapsCtxErr(e) == cancelled /\ \E i \in 1..Len(e) : e[i].t = ctxErr

C15_BodyClosedOnce ==
    /\ status = 0 => closed = 0
    /\ (status # 0 /\ pc # "done") => closed = 0
    /\ (status # 0 /\ pc = "done") => closed = 1

C15_Witness ==
    /\ op = "ChatStream" /\ pc = "done" /\ Is2xx
    /\ cancelled /\ err = CtxErr
    /\ delivered # <<>>
    /\ closed = 1

\* C16: a call hands at most one request to httpClient.Do: exactly one once
\* its validation and the construction of its URL have succeeded, none when
\* either failed, and none is added after the first, whatever the round
\* trip, the status, the decoding or the context then do.
C16_OneRequestNoRetry ==
    /\ [](/\ Len(requests) <= 1
          /\ (pc # "idle" /\ Validate(op, args) = "" /\ JoinPathOK(baseURL)) =>
                Len(requests) = 1
          /\ (pc # "idle" /\ (Validate(op, args) # "" \/ ~JoinPathOK(baseURL))) =>
                (requests = <<>> /\ pc = "done"))
    /\ [][pc # "idle" => requests' = requests]_vars

C16_Witness ==
    /\ op = "Delete" /\ pc = "done"
    /\ doErr = "connection reset"
    /\ err # NoErr
    /\ Len(requests) = 1

\* The error a call returns when it runs alone and the server answers it
\* with status c.status and the body c.received, no read failing and ctx not
\* cancelled; and the result it then returns.
AloneErr(c) ==
    IF ~JoinPathOK(baseURL) THEN URLError(c.op)
    ELSE IF c.doErr # "none" THEN RoundTripError(c.op, c.doErr)
    ELSE IF c.op \in UnaryOps THEN UnaryOutcome(c.op, c.status, c.received)
    ELSE IF IsErrorStatus(c.status) THEN parseErrorResponse(c.status, c.received)
    ELSE NoErr

AloneResult(c) ==
    IF c.op \in UnaryOps /\ c.status # 0
    THEN UnaryResult(c.op, AloneErr(c), c.received)
    ELSE IF HasTarget(c.op) THEN "nil" ELSE "none"

\* The call c has its own request, reads only its own body and hands its
\* callback only records of lines it took from that body; once returned, its
\* error and result are those of the call running alone.
OwnsItsCycle(c) ==
    /\ Len(c.requests) <= 1
    /\ c.requests # <<>> => c.requests[1] = NewRequest(c.op, c.args)
    /\ IF c.op \in StreamOps /\ ~IsErrorStatus(c.status)
       THEN c.consumed \o c.buf = c.received
       ELSE c.consumed = <<>> /\ c.buf = <<>>
    /\ c.delivered = RecordsOf(c.op, SelectSeq(c.consumed, Decodable))
    /\ c.inflight <= 1
    /\ c.pc = "done" =>
          /\ c.err = AloneErr(c)
          /\ c.result = AloneResult(c)
          /\ c.status # 0 => c.closed = 1

\* C17: with two calls on one Client interleaved in any way, each call owns
\* its request, its body and its callback stream, and returns what it
\* returns when it runs alone against the same responses.
C17_ConcurrentCallsIndependent ==
    /\ OwnsItsCycle(Running)
    /\ OwnsItsCycle(parked)

C17_Witness ==
    /\ op = "GenerateStream" /\ pc = "callback" /\ Len(delivered) = 2
    /\ parked.op = "Pull" /\ parked.pc = "callback" /\ Len(parked.delivered) = 1
    /\ parked.buf = <<"LDone">>
    /\ received = <<"LRec", "LDone">>

\* C18: NewClient returns no error, and the baseURL of its Client is
\* "http://localhost:11434" when it is called with no argument or with an
\* empty first argument, and its first argument otherwise; no call changes it.
C18_NewClientBaseURL ==
    /\ NewClientErr(host) = NoErr
    /\ baseURL = IF host = <<>> THEN "http://localhost:11434"
                 ELSE IF host[1] = "" THEN "http://localhost:11434"
                 ELSE host[1]

C18_Witness ==
    /\ host = <<"">>
    /\ baseURL = "http://localhost:11434"
    /\ pc = "done" /\ op = "List" /\ err = NoErr

\* The cause of the returned error is an OllamaError.
FailsWithOllamaError == err # NoErr /\ err[Len(err)].t = "OllamaError"

\* C19: a unary call whose body was read fails with an OllamaError exactly
\* when the status is below 200 or at least 300: 199 and 300 fail, 200 and
\* 299 do not; and on such a status the call returns no decoded result,
\* whatever the body holds.
C19_StatusBoundary ==
    (op \in UnaryOps /\ pc = "done" /\ status # 0 /\ readAllErr = "none") =>
        /\ FailsWithOllamaError <=> (status < 200 \/ status >= 300)
        /\ status \in {199, 300} => FailsWithOllamaError
        /\ status \in {200, 299} => ~FailsWithOllamaError
        /\ (status < 200 \/ status >= 300) =>
              /\ result # "decoded"
              /\ HasTarget(op) => result = "nil"

C19_Witness ==
    /\ op = "Generate" /\ pc = "done" /\ status = 300
    /\ received = <<"LRec">>
    /\ result = "nil"
    /\ err = <<Layer("failed to generate text"), OllamaError(300, "")>>

\* C20: a unary call that passes validation and is made with ctx already
\* Done hands its request to httpClient.Do and returns at once; a unary call
\* whose ctx becomes Done while the round trip waits takes no response any
\* more; and when Do reports the context's error the call returns a nil
\* result and an error that wraps ctx.Err(), "context canceled" or
\* "context deadline exceeded".
C20_CancelledUnaryCall ==
    /\ [][(pc = "idle" /\ cancelled /\ op' \in UnaryOps /\ requests' # requests) =>
             /\ pc' = "done"
             /\ WrapsCtxErr(err')
             /\ err'[Len(err')].t = ctxErr
             /\ result' = IF HasTarget(op') THEN "nil" ELSE "none"]_vars
    /\ [][(pc = "roundtrip" /\ cancelled /\ op \in UnaryOps /\ pc' # pc) =>
             /\ pc' = "done"
             /\ status' = 0
             /\ doErr' \in CtxErrs =>
                   /\ WrapsCtxErr(err')
                   /\ err'[Len(err')].t = ctxErr
                   /\ result' = IF HasTarget(op) THEN "nil" ELSE "none"]_vars
    /\ []((pc = "done" /\ op \in UnaryOps /\ doErr \in CtxErrs) =>
             /\ doErr = ctxErr
             /\ err = Wrap(UnaryWrapText(op),
                           Wrap("failed to execute request", <<Layer("url.Error"), Layer(ctxErr)>>)))

C20_Witness ==
    /\ op = "Generate" /\ pc = "done" /\ cancelled
    /\ status = 0 /\ Len(requests) = 1
    /\ result = "nil"
    /\ err = <<Layer("failed to generate text"), Layer("failed to execute request"),
               Layer("url.Error"), Layer("context deadline exceeded")>>

\* C21: every request handed to the transport, by any operation, has the
\* headers Content-Type: application/json and Accept: application/json.
C21_HeadersOnEveryRequest ==
    \A i \in 1..Len(requests) :
        /\ requests[i].headers.ContentType = "application/json"
        /\ requests[i].headers.Accept = "application/json"

C21_Witness ==
    /\ op = "PS" /\ pc = "roundtrip"
    /\ Len(requests) = 1
    /\ ~requests[1].body.present
    /\ requests[1].headers = [ContentType |-> "application/json", Accept |-> "application/json"]

\* The wire table: the method and the path of each operation.
WireTable(o) ==
    CASE o = "List" -> <<"GET", "/api/tags">>
      [] o = "Show" -> <<"POST", "/api/show">>
      [] o = "Copy" -> <<"POST", "/api/copy">>
      [] o = "Delete" -> <<"DELETE", "/api/delete">>
      [] o = "Pull" -> <<"POST", "/api/pull">>
      [] o = "Create" -> <<"POST", "/api/create">>
      [] o = "Push" -> <<"POST", "/api/push">>
      [] o = "Generate" -> <<"POST", "/api/generate">>
      [] o = "GenerateStream" -> <<"POST", "/api/generate">>
      [] o = "Chat" -> <<"POST", "/api/chat">>
      [] o = "ChatStream" -> <<"POST", "/api/chat">>
      [] o = "Embeddings" -> <<"POST", "/api/embeddings">>
      [] o = "PS" -> <<"GET", "/api/ps">>

\* C22: every request an operation hands to the transport has the method
\* and the path the wire table gives for that operation.
C22_MethodAndPath ==
    \A i \in 1..Len(requests) :
        <<requests[i].method, requests[i].path>> = WireTable(op)

C22_Witness ==
    /\ op = "Delete" /\ pc = "done" /\ err = NoErr
    /\ Len(requests) = 1
    /\ requests[1].method = "DELETE"
    /\ requests[1].path = "/api/delete"

\* C23: the request object the caller passed to Generate, GenerateStream,
\* Chat or ChatStream holds, during the call and after its return with or
\* without error, what the caller set: its Stream field among the rest.
C23_CallerRequestUnchanged ==
    op \in {"Generate", "GenerateStream", "Chat", "ChatStream"} =>
        /\ args = callerReq
        /\ args.stream = callerReq.stream

C23_Witness ==
    /\ op = "GenerateStream" /\ pc = "done" /\ err = NoErr
    /\ delivered # <<>>
    /\ callerReq.stream = FALSE /\ args.stream = FALSE
    /\ requests[1].body.stream = "true"

\* C24: no step of any call, successful or failed, in any sequence of calls
\* changes the Client's fields: baseURL is what NewClient made it from its
\* arguments, and httpClient is the http.Client NewClient made.
C24_ClientFieldsReadOnly ==
    /\ [](baseURL = NewClient(host) /\ httpClient = NewHTTPClient)
    /\ [][baseURL' = baseURL /\ httpClient' = httpClient]_vars

C24_Witness ==
    /\ host = <<"http://test:8080">> /\ baseURL = "http://test:8080"
    /\ calls = 3
    /\ pc = "done" /\ op = "List" /\ err = NoErr
    /\ parked.pc = "done" /\ parked.op = "Pull" /\ parked.status = 404

\* C25: every request a streaming operation (Pull, Create, Push,
\* GenerateStream, ChatStream) hands to the transport has a body with
\* "stream": true in it.
C25_StreamingBodiesForceStream ==
    op \in StreamOps =>
        \A i \in 1..Len(requests) :
            /\ "stream" \in requests[i].body.keys
            /\ requests[i].body.stream = "true"

\* C26: a cancellation of ctx while a callback invocation is in flight leaves
\* that invocation running; when it returns with ctx Done the loop goes on
\* to its next iteration with no error set, or, in GenerateStream and
\* ChatStream after a record with done set, the call returns, with nil when
\* the reader has not failed; and no step taken from inside a callback
\* invocation returns the context's error.
C26_CancellationNotPreemptive ==
    /\ [][(pc = "callback" /\ ~cancelled /\ cancelled') =>
             /\ pc' = "callback"
             /\ inflight' = inflight
             /\ delivered' = delivered
             /\ err' = err]_vars
    /\ [][(pc = "callback" /\ cancelled /\ pc' # "callback") =>
             /\ inflight' = inflight - 1
             /\ delivered' = delivered
             /\ ~WrapsCtxErr(err')
             /\ IF op \in TerminalOps /\ delivered[Len(delivered)].Done
                THEN /\ pc' = "done"
                     /\ sErr \in {"none", "EOF"} => err' = NoErr
                ELSE /\ pc' = "scan"
                     /\ err' = NoErr]_vars

C26_Witness ==
    /\ op = "ChatStream" /\ pc = "done" /\ cancelled
    /\ err = NoErr
    /\ Len(delivered) = 2
    /\ delivered[2].Done
    /\ consumed = <<"LRec", "LDone">>

\* The record of line l has the zero value in every field whose key l lacks.
ZeroWhereAbsent(o, rec, l) ==
    CASE o \in {"Pull", "Push"} ->
            /\ Json(l).status = Absent => rec.Status = ""
            /\ Json(l).status # Absent => rec.Status = Json(l).status
            /\ rec.Completed = Json(l).completed
      [] o = "Create" ->
            /\ Json(l).status = Absent => rec.Status = ""
            /\ Json(l).status # Absent => rec.Status = Json(l).status
      [] o = "GenerateStream" ->
            /\ Json(l).response = Absent => rec.Response = ""
            /\ Json(l).response # Absent => rec.Response = Json(l).response
            /\ rec.Done = (Json(l).done = "true")
      [] o = "ChatStream" ->
            /\ Json(l).content = Absent => rec.Content = ""
            /\ Json(l).content # Absent => rec.Content = Json(l).content
            /\ rec.Done = (Json(l).done = "true")

\* C27: the i-th record handed to the callback is made from the i-th
\* decodable line alone, with the zero value where the line has no key,
\* whatever the earlier lines held; and a record once handed to the callback
\* is not changed by anything the call does afterwards.
C27_RecordFreshPerLine ==
    /\ []((op \in StreamOps /\ Is2xx) =>
            /\ Len(delivered) <= Len(SelectSeq(consumed, Decodable))
            /\ \A i \in 1..Len(delivered) :
                  ZeroWhereAbsent(op, delivered[i], SelectSeq(consumed, Decodable)[i]))
    /\ [][IsPrefix(delivered, delivered')]_vars

C27_Witness ==
    /\ op = "Pull" /\ pc = "done" /\ err = NoErr
    /\ consumed = <<"LRec", "LErr", "LRec">>
    /\ delivered = <<[Status |-> "downloading", Completed |-> 100],
                     [Status |-> "", Completed |-> 0],
                     [Status |-> "downloading", Completed |-> 100]>>

\* The line is not empty after strings.TrimSpace.
NonBlank(l) == ~IsBlank(l)

\* C28: in the five streaming operations, taking a blank line from the
\* scanner (ctx not being found Done on it) invokes no callback, makes no
\* json.Unmarshal call, sets no error and leaves the loop running; so the
\* number of json.Unmarshal calls is the number of non-blank lines taken and
\* the number of callbacks the number of decodable lines taken, whatever
\* blank lines lie between them.
C28_BlankLinesIgnored ==
    /\ [][(op \in StreamOps /\ pc = "scan" /\ consumed' # consumed
              /\ IsBlank(consumed'[Len(consumed')])
              /\ ~(ChecksContext(op) /\ cancelled)) =>
             /\ pc' = "scan"
             /\ delivered' = delivered
             /\ inflight' = inflight
             /\ decodes' = decodes
             /\ err' = NoErr
             /\ closed' = closed]_vars
    /\ []((op \in StreamOps /\ Is2xx) =>
            /\ Len(delivered) <= decodes
            /\ decodes <= Len(SelectSeq(consumed, NonBlank))
            /\ (pc \in {"scan", "callback"} \/ (pc = "done" /\ ~cancelled)) =>
                  /\ decodes = Len(SelectSeq(consumed, NonBlank))
                  /\ Len(delivered) = Len(SelectSeq(consumed, Decodable)))

C28_Witness ==
    /\ op = "Push" /\ pc = "done" /\ err = NoErr
    /\ consumed = <<"LBlank", "LRec", "LBlank">>
    /\ Len(delivered) = 1
    /\ decodes = 1

\* The call left the loop through the select on ctx.Done().
LeftOnCtxDone == ChecksContext(op) /\ cancelled /\ err = CtxErr

\* C29: a streaming call whose body read failed (the connection was lost, or
\* a line did not fit the scanner's buffer) has returned a non-nil error,
\* which wraps the reader's error unless the call left the loop on ctx.Done()
\* first, also when the last line taken was cut short and did not decode;
\* the callback has been invoked for every decodable line taken before, and
\* Pull, Create and Push have taken every line read before the failure.
C29_ReadFailureReported ==
    (op \in StreamOps /\ Is2xx /\ pc = "done" /\ sErr \in {"fail", "toolong"}) =>
        /\ err # NoErr
        /\ ~LeftOnCtxDone =>
              /\ err = <<Layer(ScanText(op)), Layer(ScannerErrText(sErr))>>
              /\ delivered = RecordsOf(op, SelectSeq(consumed, Decodable))
        /\ (op \in ProgressOps /\ sErr = "fail") => consumed = received
        /\ (op \in ProgressOps /\ sErr = "toolong") =>
              /\ consumed \o buf = received
              /\ Json(Head(buf)).long

C29_Witness ==
    /\ op = "Create" /\ pc = "done" /\ sErr = "fail" /\ ~cancelled
    /\ received = <<"LRec", "LRec", "LBad">>
    /\ consumed = received
    /\ Len(delivered) = 2
    /\ err = <<Layer("error reading create response stream"), Layer("unexpected EOF")>>

\* The body is one JSON object, white space around it allowed.
OneJSONValue(body) ==
    /\ Cardinality({i \in 1..Len(body) : Json(body[i]).kind # "blank"}) = 1
    /\ \A i \in 1..Len(body) : Json(body[i]).kind \in {"blank", "object", "null"}

\* C30: a result-returning unary call answered 2xx with a non-empty body
\* returns the decoded result and nil when the body is exactly one JSON
\* value; when the body is not JSON or holds more than one value it returns
\* a nil result and the error of json.Unmarshal, wrapped.
C30_UnaryDecodesOneValue ==
    (HasTarget(op) /\ pc = "done" /\ Is2xx /\ readAllErr = "none" /\ received # <<>>) =>
        /\ OneJSONValue(received) => (err = NoErr /\ result = "decoded")
        /\ ~OneJSONValue(received) =>
              /\ result = "nil"
              /\ Len(err) = 3
              /\ err[1].t = UnaryWrapText(op)
              /\ err[2].t = "failed to unmarshal response body"

C30_Witness ==
    /\ op = "Generate" /\ pc = "done" /\ status = 200
    /\ received = <<"LRec", "LRec">>
    /\ result = "nil"
    /\ err[2].t = "failed to unmarshal response body"

\* No line taken from the scanner decodes to a record with done set.
NoTerminalRecord == \A i \in 1..Len(consumed) : ~(Decodable(consumed[i]) /\ Json(consumed[i]).done = "true")

\* C31: GenerateStream and ChatStream, answered 2xx, whose body ended with
\* end-of-stream before any record with done set: the call returned nil, or
\* the cancellation error when it left the loop on a cancelled context; when
\* it returned nil every line was taken from the scanner and every decodable
\* one was handed to the callback, none of them terminal.
C31_EndWithoutTerminalRecord ==
    (op \in TerminalOps /\ Is2xx /\ pc = "done" /\ sErr = "EOF" /\ NoTerminalRecord) =>
        /\ err = NoErr \/ LeftOnCtxDone
        /\ ~cancelled => err = NoErr
        /\ err = NoErr =>
              /\ consumed = received
              /\ delivered = RecordsOf(op, SelectSeq(received, Decodable))
              /\ \A i \in 1..Len(delivered) : ~delivered[i].Done

C31_Witness ==
    /\ op = "GenerateStream" /\ pc = "done" /\ status = 200
    /\ sErr = "EOF" /\ ~cancelled
    /\ received = <<"LRec", "LBad", "LRec">>
    /\ Len(delivered) = 2
    /\ err = NoErr

\* The zero value of the operation's record type, in the fields the model keeps.
ZeroRecord(o) ==
    CASE o \in {"Pull", "Push"} -> [Status |-> "", Completed |-> 0]
      [] o = "Create" -> [Status |-> ""]
      [] o = "GenerateStream" -> [Response |-> "", Done |-> FALSE]
      [] o = "ChatStream" -> [Content |-> "", Done |-> FALSE]

\* What a streaming call answered 2xx returns, as far as the lines' content
\* goes: it depends on how the loop was left, never on what a line said.
StreamReturn ==
    IF LeftOnCtxDone THEN CtxErr
    ELSE IF sErr \in {"none", "EOF"} THEN NoErr
    ELSE <<Layer(ScanText(op)), Layer(ScannerErrText(sErr))>>

\* C32: in the five streaming operations answered 2xx, a line {"error": m}
\* that comes up for processing (the context check of GenerateStream and
\* ChatStream not ending the call first) is handed to the callback as the
\* zero record and the call does not return; when the callback returns the
\* loop goes on to the next Scan; and the error the call returns in the end
\* is the one the way the loop ended gives, with no OllamaError in it.
C32_ErrorLineIsARecord ==
    /\ []((op \in StreamOps /\ Is2xx /\ pc = "done") =>
            /\ err = StreamReturn
            /\ \A i \in 1..Len(err) : err[i].t # "OllamaError")
    /\ [][(op \in StreamOps /\ Is2xx /\ pc = "scan"
              /\ consumed' = Append(consumed, "LErr")
              /\ ~(ChecksContext(op) /\ cancelled)) =>
                 /\ delivered' = Append(delivered, ZeroRecord(op))
                 /\ pc' = "callback"
                 /\ err' = NoErr]_vars
    /\ [][(op \in StreamOps /\ Is2xx /\ pc = "callback"
              /\ consumed[Len(consumed)] = "LErr"
              /\ inflight' < inflight) =>
                 /\ pc' = "scan"
                 /\ err' = NoErr
                 /\ delivered' = delivered]_vars

C32_Witness ==
    /\ op = "Pull" /\ pc = "done" /\ status = 200
    /\ received = <<"LErr", "LRec">>
    /\ consumed = received
    /\ Len(delivered) = 2
    /\ delivered[1] = [Status |-> "", Completed |-> 0]
    /\ err = NoErr

\* The body is one JSON object without the key error, or the value null,
\* white space around it allowed.
EnvelopeWithoutError(body) ==
    /\ OneJSONValue(body)
    /\ \A i \in 1..Len(body) : Json(body[i]).error = Absent

\* C33: a call answered with a non-2xx status whose body was read returns an
\* OllamaError with the response's status; its Message is empty for an empty
\* body and for a body that is a JSON object without the key error or the
\* value null, and it is the body text only when the body is not one JSON
\* value.
C33_RawBodyOnlyOnDecodeFailure ==
    (pc = "done" /\ status # 0 /\ ~Is2xx /\ readAllErr = "none") =>
        /\ err # NoErr
        /\ err[Len(err)].t = "OllamaError"
        /\ err[Len(err)].status = status
        /\ received = <<>> => err[Len(err)].msg = ""
        /\ EnvelopeWithoutError(received) => err[Len(err)].msg = ""
        /\ OneJSONValue(received) => err[Len(err)].msg # RawText(received)
        /\ ~OneJSONValue(received) => err[Len(err)].msg = RawText(received)

C33_Witness ==
    /\ op = "Show" /\ pc = "done" /\ status = 404
    /\ received = <<"LRec">>
    /\ err = <<Layer("failed to show model"), OllamaError(404, "")>>

\* C34: a streaming call answered 2xx whose body read the client's timer
\* interrupted: the client has its timeout of 30 seconds, the call returned
\* an error, and unless it left the loop on a cancelled context (which a
\* caller that never cancels rules out) that error is the timeout wrapped as
\* a read error, returned after every decodable line the scanner gave out
\* was handed to the callback; Pull, Create and Push gave out every line
\* read before the interruption.
C34_ClientTimeoutEndsStream ==
    (op \in StreamOps /\ Is2xx /\ pc = "done" /\ sErr = "timeout") =>
        /\ httpClient.Timeout = 30
        /\ err # NoErr
        /\ (~cancelled \/ ~LeftOnCtxDone) =>
              /\ err = <<Layer(ScanText(op)), Layer(ClientTimeout)>>
              /\ delivered = RecordsOf(op, SelectSeq(consumed, Decodable))
        /\ op \in ProgressOps => consumed = received

C34_Witness ==
    /\ op = "Pull" /\ pc = "done" /\ status = 200
    /\ sErr = "timeout" /\ ~cancelled /\ ctxErr = "none"
    /\ received = <<"LRec", "LRec">>
    /\ Len(delivered) = 2
    /\ err = <<Layer("error reading pull response stream"), Layer("Client.Timeout exceeded")>>

\* C35: a returned call of List, Show, Generate, Chat, Embeddings or PS has a
\* nil result exactly when its error is not nil; otherwise the result is the
\* method's response object.
C35_NilResultIffError ==
    (HasTarget(op) /\ pc = "done") =>
        /\ result \in {"nil", "decoded", "zero"}
        /\ result = "nil" <=> err # NoErr

C35_Witness ==
    /\ op = "Embeddings" /\ pc = "done" /\ status = 200
    /\ received = <<"LRec", "LBad">>
    /\ readAllErr = "none"
    /\ result = "nil"
    /\ err # NoErr

====
